---- MODULE Spec2Model ----
(***************************************************************************)
(* Model of the FHE16 request/event programs:                              *)
(*   host-programs  (types.rs, handle.rs, events.rs, lib.rs)               *)
(*   lending-demo   (lib.rs)                                               *)
(*                                                                         *)
(* A byte string is a sequence of cells.  A literal byte b is the cell     *)
(* <<b>>.  SHA-256 is idealised as an injective function: byte i of the    *)
(* digest of the byte string p is the cell <<i, p>>.  Handles and public   *)
(* keys are 32 bytes in the programs; the model scales both widths down    *)
(* (HandleLen, PubkeyLen).                                                 *)
(***************************************************************************)
EXTENDS Integers, Sequences, FiniteSets, TLC

VARIABLES log, msgs, call, d1, d2

vars == <<log, msgs, call, d1, d2>>

\* ------------------------------------------------------------------ bounds
HandleLen == 2
PubkeyLen == 2
MaxLog == 2
MaxReqLog == 2

\* ------------------------------------------------------------------ bytes
Bytes(ns) == [i \in 1..Len(ns) |-> <<ns[i]>>]

RECURSIVE Concat(_)
Concat(slices) ==
  IF slices = <<>> THEN <<>> ELSE Head(slices) \o Concat(Tail(slices))

\* sha256 digest, truncated to the model's handle width
Hash(pre) == [i \in 1..HandleLen |-> <<i, pre>>]

hashv(slices) == Hash(Concat(slices))

\* the byte string a digest handle was computed from
Preimage(h) == h[1][2]

\* ------------------------------------------------------------------ keys
\* leading bytes of the two declared program ids (base58-decoded)
HostIdBytes == <<219, 29, 96, 200, 170, 62>>
LendingIdBytes == <<9, 207, 126, 82, 92, 251>>

HOST_CONTRACTS_ID == Bytes(SubSeq(HostIdBytes, 1, PubkeyLen))
LENDING_DEMO_ID == Bytes(SubSeq(LendingIdBytes, 1, PubkeyLen))
HOST_PROGRAM_ID == Bytes(SubSeq(HostIdBytes, 1, PubkeyLen))

Caller1 == [i \in 1..PubkeyLen |-> <<17>>]
Caller2 == [i \in 1..PubkeyLen |-> <<34>>]

\* ------------------------------------------------------------------ types.rs
UnaryOps == <<"Not", "Abs", "Neg">>

BinaryOps ==
  <<"And", "Or", "Xor", "Add", "Sub", "SDiv", "Eq", "Neq", "Gt", "Ge", "Lt",
    "Le", "Max", "Min", "MaxOrMin", "Compare", "OrVec", "AndVec", "XorVec",
    "LShiftL", "SMulL", "AddPowTwo", "SubPowTwo", "GateTemplete",
    "PrefixTemplete", "AddPowTwoTemplete", "OrXor", "AndXor">>

TernaryOps == <<"Add3", "Eq3", "Maj3", "Xor3", "Select">>

\* lending-demo declares its own copies of the two enums
LendingBinaryOps == <<"Add", "Sub", "Ge">>
LendingTernaryOps == <<"Select">>

Members(decl) == {decl[i] : i \in 1..Len(decl)}

VariantIndex(decl, op) == CHOOSE i \in 1..Len(decl) : decl[i] = op

\* a fieldless enum without explicit discriminants: the first variant is 0,
\* each later one is its predecessor plus one
RECURSIVE ImplicitDiscriminant(_, _)
ImplicitDiscriminant(decl, i) ==
  IF i = 1 THEN 0 ELSE ImplicitDiscriminant(decl, i - 1) + 1

\* mutant: discriminants pinned from 1 instead of the implicit 0
AsU8Shifted(decl, op) == VariantIndex(decl, op) % 256

\* `op as u8`
AsU8(decl, op) == ImplicitDiscriminant(decl, VariantIndex(decl, op)) % 256

\* derive(AnchorSerialize): one byte, the variant's position in the enum
BorshSerializeOp(decl, op) == <<(VariantIndex(decl, op) - 1) % 256>>

\* derive(AnchorDeserialize): the byte selects the variant by position
BorshDeserializeOp(decl, bytes) ==
  IF bytes[1] < Len(decl) THEN decl[bytes[1] + 1] ELSE "InvalidData"

\* ------------------------------------------------------------------ handle.rs
HANDLE_DOMAIN_UNARY ==
  Bytes(<<70, 72, 69, 49, 54, 95, 85, 78, 65, 82, 89, 95, 86, 49>>)
HANDLE_DOMAIN_BINARY ==
  Bytes(<<70, 72, 69, 49, 54, 95, 66, 73, 78, 65, 82, 89, 95, 86, 49>>)
HANDLE_DOMAIN_TERNARY ==
  Bytes(<<70, 72, 69, 49, 54, 95, 84, 69, 82, 78, 65, 82, 89, 95, 86, 49>>)

\* mutant: the operand is left out of the hash input
derive_unary_handle_no_input(op, input, program_id) ==
  LET op_byte == Bytes(<<AsU8(UnaryOps, op)>>)
  IN  hashv(<<HANDLE_DOMAIN_UNARY, program_id, op_byte>>)

derive_unary_handle(op, input, program_id) ==
  LET op_byte == Bytes(<<AsU8(UnaryOps, op)>>)
  IN  hashv(<<HANDLE_DOMAIN_UNARY, program_id, op_byte, input>>)

\* mutant: rhs hashed before lhs
derive_binary_handle_swapped(op, lhs, rhs, program_id) ==
  LET op_byte == Bytes(<<AsU8(BinaryOps, op)>>)
  IN  hashv(<<HANDLE_DOMAIN_BINARY, program_id, op_byte, rhs, lhs>>)

\* mutant: operands of the commutative ops put in a canonical order
derive_binary_handle_canonical(op, lhs, rhs, program_id) ==
  LET op_byte == Bytes(<<AsU8(BinaryOps, op)>>)
      flip == op \in {"And", "Or", "Xor", "Add"} /\ rhs[1][1] < lhs[1][1]
  IN  hashv(<<HANDLE_DOMAIN_BINARY, program_id, op_byte,
              IF flip THEN rhs ELSE lhs, IF flip THEN lhs ELSE rhs>>)

derive_binary_handle(op, lhs, rhs, program_id) ==
  LET op_byte == Bytes(<<AsU8(BinaryOps, op)>>)
  IN  hashv(<<HANDLE_DOMAIN_BINARY, program_id, op_byte, lhs, rhs>>)

\* mutant: a copy of the binary derivation, third operand never added
derive_ternary_handle_as_binary(op, a, b, c, program_id) ==
  LET op_byte == Bytes(<<AsU8(TernaryOps, op)>>)
  IN  hashv(<<HANDLE_DOMAIN_BINARY, program_id, op_byte, a, b>>)

derive_ternary_handle(op, a, b, c, program_id) ==
  LET op_byte == Bytes(<<AsU8(TernaryOps, op)>>)
  IN  hashv(<<HANDLE_DOMAIN_TERNARY, program_id, op_byte, a, b, c>>)

\* ------------------------------------------------------------------ lending-demo derivation
LENDING_HANDLE_DOMAIN_BINARY ==
  Bytes(<<70, 72, 69, 49, 54, 95, 66, 73, 78, 65, 82, 89, 95, 86, 49>>)
LENDING_HANDLE_DOMAIN_TERNARY ==
  Bytes(<<70, 72, 69, 49, 54, 95, 84, 69, 82, 78, 65, 82, 89, 95, 86, 49>>)

lending_derive_binary_handle(op, lhs, rhs, program_id) ==
  LET op_byte == Bytes(<<AsU8(LendingBinaryOps, op)>>)
  IN  hashv(<<LENDING_HANDLE_DOMAIN_BINARY, program_id, op_byte, lhs, rhs>>)

lending_derive_ternary_handle(op, a, b, c, program_id) ==
  LET op_byte == Bytes(<<AsU8(LendingTernaryOps, op)>>)
  IN  hashv(<<LENDING_HANDLE_DOMAIN_TERNARY, program_id, op_byte, a, b, c>>)

\* ------------------------------------------------------------------ events
InputHandleRegistered(caller, handle, client_tag) ==
  [type |-> "InputHandleRegistered", caller |-> caller, handle |-> handle,
   client_tag |-> client_tag]

Fhe16UnaryOpRequested(caller, op, input_handle, result_handle) ==
  [type |-> "Fhe16UnaryOpRequested", caller |-> caller, op |-> op,
   input_handle |-> input_handle, result_handle |-> result_handle]

Fhe16BinaryOpRequested(caller, op, lhs_handle, rhs_handle, result_handle) ==
  [type |-> "Fhe16BinaryOpRequested", caller |-> caller, op |-> op,
   lhs_handle |-> lhs_handle, rhs_handle |-> rhs_handle,
   result_handle |-> result_handle]

Fhe16TernaryOpRequested(caller, op, a_handle, b_handle, c_handle, result_handle) ==
  [type |-> "Fhe16TernaryOpRequested", caller |-> caller, op |-> op,
   a_handle |-> a_handle, b_handle |-> b_handle, c_handle |-> c_handle,
   result_handle |-> result_handle]

WithdrawCompleted(caller, usdc_balance, withdraw_amount, ge_result_handle, sub_result_handle, final_handle) ==
  [type |-> "WithdrawCompleted", caller |-> caller,
   usdc_balance |-> usdc_balance, withdraw_amount |-> withdraw_amount,
   ge_result_handle |-> ge_result_handle,
   sub_result_handle |-> sub_result_handle, final_handle |-> final_handle]

DepositCompleted(caller, sol_balance, deposit_amount, final_handle) ==
  [type |-> "DepositCompleted", caller |-> caller, sol_balance |-> sol_balance,
   deposit_amount |-> deposit_amount, final_handle |-> final_handle]

\* ------------------------------------------------------------------ host-programs handlers
\* A handler yields its Result, the events it emitted (emit!) and the lines it
\* wrote to the program log (msg!), in order.
Outcome(result, events, lines) ==
  [result |-> result, events |-> events, lines |-> lines]

host_initialize(program_id) ==
  Outcome("Ok", <<>>, <<[text |-> "FHE16 Executor initialized", data |-> <<program_id>>]>>)

\* mutant: the emit! is missing
register_input_handle_silent(caller, handle, client_tag) ==
  Outcome("Ok", <<>>, <<>>)

register_input_handle(caller, handle, client_tag) ==
  Outcome("Ok", <<InputHandleRegistered(caller, handle, client_tag)>>, <<>>)

request_unary_op(program_id, caller, op, input_handle) ==
  LET result_handle == derive_unary_handle(op, input_handle, program_id)
  IN  Outcome("Ok",
              <<Fhe16UnaryOpRequested(caller, op, input_handle, result_handle)>>,
              <<>>)

request_binary_op(program_id, caller, op, lhs_handle, rhs_handle) ==
  LET result_handle == derive_binary_handle(op, lhs_handle, rhs_handle, program_id)
  IN  Outcome("Ok",
              <<Fhe16BinaryOpRequested(caller, op, lhs_handle, rhs_handle,
                                       result_handle)>>,
              <<>>)

request_ternary_op(program_id, caller, op, a_handle, b_handle, c_handle) ==
  LET result_handle ==
        derive_ternary_handle(op, a_handle, b_handle, c_handle, program_id)
  IN  Outcome("Ok",
              <<Fhe16TernaryOpRequested(caller, op, a_handle, b_handle, c_handle,
                                        result_handle)>>,
              <<>>)

\* ------------------------------------------------------------------ lending-demo handlers
\* #[account(address = HOST_PROGRAM_ID)] on LendingDemo.host_programs
LendingDemoAccounts(host_programs) ==
  IF host_programs = HOST_PROGRAM_ID THEN "Ok" ELSE "ConstraintAddress"

\* the two "CPI" helpers only write a line to the program log
trigger_binary_cpi(op, lhs, rhs) ==
  Outcome("Ok", <<>>, <<[text |-> "CPI BinaryOp", data |-> <<op, lhs, rhs>>]>>)

trigger_ternary_cpi(op, a, b, c) ==
  Outcome("Ok", <<>>, <<[text |-> "CPI TernaryOp", data |-> <<op, a, b, c>>]>>)

lending_initialize(program_id) ==
  Outcome("Ok", <<>>, <<[text |-> "Lending Demo initialized", data |-> <<program_id>>]>>)

\* mutant: the select is derived over (sub, ge, balance)
withdraw_select_swapped(caller, host_programs, usdc_balance, withdraw_amount) ==
  IF LendingDemoAccounts(host_programs) # "Ok"
  THEN Outcome(LendingDemoAccounts(host_programs), <<>>, <<>>)
  ELSE
  LET host_pid == host_programs
      ge_handle ==
        lending_derive_binary_handle("Ge", usdc_balance, withdraw_amount, host_pid)
      sub_handle ==
        lending_derive_binary_handle("Sub", usdc_balance, withdraw_amount, host_pid)
      final_handle ==
        lending_derive_ternary_handle("Select", sub_handle, ge_handle,
                                      usdc_balance, host_pid)
  IN  Outcome("Ok",
              <<WithdrawCompleted(caller, usdc_balance, withdraw_amount,
                                  ge_handle, sub_handle, final_handle)>>,
              trigger_binary_cpi("Ge", usdc_balance, withdraw_amount).lines
                \o trigger_binary_cpi("Sub", usdc_balance, withdraw_amount).lines
                \o trigger_ternary_cpi("Select", sub_handle, ge_handle,
                                       usdc_balance).lines)

withdraw(caller, host_programs, usdc_balance, withdraw_amount) ==
  IF LendingDemoAccounts(host_programs) # "Ok"
  THEN Outcome(LendingDemoAccounts(host_programs), <<>>, <<>>)
  ELSE
  LET host_pid == host_programs
      ge_handle ==
        lending_derive_binary_handle("Ge", usdc_balance, withdraw_amount, host_pid)
      s1 == trigger_binary_cpi("Ge", usdc_balance, withdraw_amount)
      sub_handle ==
        lending_derive_binary_handle("Sub", usdc_balance, withdraw_amount, host_pid)
      s2 == trigger_binary_cpi("Sub", usdc_balance, withdraw_amount)
      final_handle ==
        lending_derive_ternary_handle("Select", ge_handle, sub_handle,
                                      usdc_balance, host_pid)
      s3 == trigger_ternary_cpi("Select", ge_handle, sub_handle, usdc_balance)
  IN  IF s1.result # "Ok"
      THEN Outcome(s1.result, s1.events, s1.lines)
      ELSE IF s2.result # "Ok"
      THEN Outcome(s2.result, s1.events \o s2.events, s1.lines \o s2.lines)
      ELSE IF s3.result # "Ok"
      THEN Outcome(s3.result, s1.events \o s2.events \o s3.events,
                   s1.lines \o s2.lines \o s3.lines)
      ELSE Outcome("Ok",
                   s1.events \o s2.events \o s3.events \o
                     <<WithdrawCompleted(caller, usdc_balance, withdraw_amount,
                                         ge_handle, sub_handle, final_handle)>>,
                   s1.lines \o s2.lines \o s3.lines)

\* mutant: the host program address is checked after the event is emitted
deposit_late_check(caller, host_programs, sol_balance, deposit_amount) ==
  LET host_pid == host_programs
      final_handle ==
        lending_derive_binary_handle("Add", sol_balance, deposit_amount, host_pid)
      s1 == trigger_binary_cpi("Add", sol_balance, deposit_amount)
  IN  Outcome(LendingDemoAccounts(host_programs),
              <<DepositCompleted(caller, sol_balance, deposit_amount,
                                 final_handle)>>,
              s1.lines)

deposit(caller, host_programs, sol_balance, deposit_amount) ==
  IF LendingDemoAccounts(host_programs) # "Ok"
  THEN Outcome(LendingDemoAccounts(host_programs), <<>>, <<>>)
  ELSE
  LET host_pid == host_programs
      final_handle ==
        lending_derive_binary_handle("Add", sol_balance, deposit_amount, host_pid)
      s1 == trigger_binary_cpi("Add", sol_balance, deposit_amount)
  IN  IF s1.result # "Ok"
      THEN Outcome(s1.result, s1.events, s1.lines)
      ELSE Outcome("Ok",
                   s1.events \o
                     <<DepositCompleted(caller, sol_balance, deposit_amount,
                                        final_handle)>>,
                   s1.lines)

\* ------------------------------------------------------------------ inputs
NoKey == <<>>

InputA == [i \in 1..HandleLen |-> <<0>>]
\* InputA with its first byte flipped
InputB == [i \in 1..HandleLen |-> <<IF i = 1 THEN 1 ELSE 0>>]
ClientTag == [i \in 1..HandleLen |-> <<7>>]

\* a handle a caller computed off-chain with the public derivation
Precomputed == derive_unary_handle("Not", InputA, HOST_CONTRACTS_ID)

IsRequest(r) ==
  r.type \in {"Fhe16UnaryOpRequested", "Fhe16BinaryOpRequested",
              "Fhe16TernaryOpRequested"}

ResultHandles(l) ==
  {l[i].result_handle : i \in {j \in 1..Len(l) : IsRequest(l[j])}}

Operands(r) ==
  CASE r.type = "Fhe16UnaryOpRequested" -> <<r.input_handle>>
    [] r.type = "Fhe16BinaryOpRequested" -> <<r.lhs_handle, r.rhs_handle>>
    [] r.type = "Fhe16TernaryOpRequested" -> <<r.a_handle, r.b_handle, r.c_handle>>
    [] OTHER -> <<>>

\* handles a caller of the graph specification may pass
GraphHandles == {InputA, Precomputed} \cup ResultHandles(log)
WorkflowBalances == {InputA, Precomputed}
WorkflowAmounts == {InputB}
GraphCallers == {Caller1}
GraphUnaryOps == {"Not"}
GraphBinaryOps == {"Add"}
GraphTernaryOps == {"Select"}

\* inputs of the request-layer specification: both callers, the full catalogs
ReqCallers == {Caller1, Caller2}
ReqHandles == {InputA, InputB}

Namespaces == {HOST_CONTRACTS_ID, LENDING_DEMO_ID}

NoCall ==
  [entry |-> "none", caller |-> NoKey, host_programs |-> NoKey, op |-> "",
   handles |-> <<>>, result |-> "Ok"]

Invocation(entry, caller, host_programs, op, handles, result) ==
  [entry |-> entry, caller |-> caller, host_programs |-> host_programs,
   op |-> op, handles |-> handles, result |-> result]

NoDerivation ==
  [arity |-> 0, program |-> "", op |-> "", operands |-> <<>>,
   program_id |-> NoKey, out |-> <<>>]

\* ------------------------------------------------------------------ transactions
\* One transaction runs one handler: its events go to the record log in
\* emission order, its msg! lines are the transaction's program log.
Execute(o) ==
  /\ log' = log \o o.events
  /\ msgs' = o.lines
  /\ UNCHANGED <<d1, d2>>

HostInitialize ==
  /\ call' = Invocation("host_initialize", NoKey, NoKey, "", <<>>,
                        host_initialize(HOST_CONTRACTS_ID).result)
  /\ Execute(host_initialize(HOST_CONTRACTS_ID))

RegisterInputHandle(callers, handles) ==
  \E caller \in callers, handle \in handles :
    LET o == register_input_handle(caller, handle, ClientTag)
    IN  /\ call' = Invocation("register_input_handle", caller, NoKey, "",
                              <<handle, ClientTag>>, o.result)
        /\ Execute(o)

RequestUnaryOp(callers, ops, handles) ==
  \E caller \in callers, op \in ops, input_handle \in handles :
    LET o == request_unary_op(HOST_CONTRACTS_ID, caller, op, input_handle)
    IN  /\ call' = Invocation("request_unary_op", caller, NoKey, op,
                              <<input_handle>>, o.result)
        /\ Execute(o)

RequestBinaryOp(callers, ops, handles) ==
  \E caller \in callers, op \in ops, lhs_handle \in handles, rhs_handle \in handles :
    LET o == request_binary_op(HOST_CONTRACTS_ID, caller, op, lhs_handle, rhs_handle)
    IN  /\ call' = Invocation("request_binary_op", caller, NoKey, op,
                              <<lhs_handle, rhs_handle>>, o.result)
        /\ Execute(o)

RequestTernaryOp(callers, ops, handles, last) ==
  \E caller \in callers, op \in ops, a_handle \in handles, b_handle \in handles,
     c_handle \in last :
    LET o == request_ternary_op(HOST_CONTRACTS_ID, caller, op, a_handle, b_handle,
                                c_handle)
    IN  /\ call' = Invocation("request_ternary_op", caller, NoKey, op,
                              <<a_handle, b_handle, c_handle>>, o.result)
        /\ Execute(o)

LendingInitialize ==
  /\ call' = Invocation("lending_initialize", NoKey, NoKey, "", <<>>,
                        lending_initialize(LENDING_DEMO_ID).result)
  /\ Execute(lending_initialize(LENDING_DEMO_ID))

Withdraw ==
  \E caller \in GraphCallers, host_programs \in Namespaces,
     usdc_balance \in WorkflowBalances, withdraw_amount \in WorkflowAmounts :
    LET o == withdraw(caller, host_programs, usdc_balance, withdraw_amount)
    IN  /\ call' = Invocation("withdraw", caller, host_programs, "",
                              <<usdc_balance, withdraw_amount>>, o.result)
        /\ Execute(o)

Deposit ==
  \E caller \in GraphCallers, host_programs \in Namespaces,
     sol_balance \in WorkflowBalances, deposit_amount \in WorkflowAmounts :
    LET o == deposit(caller, host_programs, sol_balance, deposit_amount)
    IN  /\ call' = Invocation("deposit", caller, host_programs, "",
                              <<sol_balance, deposit_amount>>, o.result)
        /\ Execute(o)

\* ------------------------------------------------------------------ the record log
Init ==
  /\ log = <<>>
  /\ msgs = <<>>
  /\ call = NoCall
  /\ d1 = NoDerivation
  /\ d2 = NoDerivation

GraphRegister == Len(log) < MaxLog /\ RegisterInputHandle(GraphCallers, GraphHandles)
GraphUnary == Len(log) < MaxLog /\ RequestUnaryOp(GraphCallers, GraphUnaryOps, GraphHandles)
GraphBinary == Len(log) < MaxLog /\ RequestBinaryOp(GraphCallers, GraphBinaryOps, GraphHandles)
GraphTernary == Len(log) < MaxLog /\ RequestTernaryOp(GraphCallers, GraphTernaryOps, GraphHandles, {InputA})
GraphWithdraw == Len(log) < MaxLog /\ Withdraw
GraphDeposit == Len(log) < MaxLog /\ Deposit

Next ==
  \/ HostInitialize
  \/ LendingInitialize
  \/ GraphRegister
  \/ GraphUnary
  \/ GraphBinary
  \/ GraphTernary
  \/ GraphWithdraw
  \/ GraphDeposit

Spec == Init /\ [][Next]_vars

\* ------------------------------------------------------------------ the request layer, full catalogs
\* the log after one earlier registration
PriorLogs == {register_input_handle(Caller1, InputA, ClientTag).events}

InitReq ==
  /\ log \in PriorLogs
  /\ msgs = <<>>
  /\ call = NoCall
  /\ d1 = NoDerivation
  /\ d2 = NoDerivation

ReqRegister == Len(log) < MaxReqLog /\ RegisterInputHandle(ReqCallers, ReqHandles)
ReqUnary == Len(log) < MaxReqLog /\ RequestUnaryOp(ReqCallers, Members(UnaryOps), ReqHandles)
ReqBinary == Len(log) < MaxReqLog /\ RequestBinaryOp(ReqCallers, Members(BinaryOps), ReqHandles)
ReqTernary == Len(log) < MaxReqLog /\ RequestTernaryOp(ReqCallers, Members(TernaryOps), ReqHandles, ReqHandles)

NextReq ==
  \/ ReqRegister
  \/ ReqUnary
  \/ ReqBinary
  \/ ReqTernary

SpecReq == InitReq /\ [][NextReq]_vars

\* ------------------------------------------------------------------ the derivation functions
Derivation(arity, program, op, operands, program_id, out) ==
  [arity |-> arity, program |-> program, op |-> op, operands |-> operands,
   program_id |-> program_id, out |-> out]

\* each step applies one derivation function; a behaviour is a pair of
\* applications, the first kept in d2 while the second is in d1
Derived(d) ==
  /\ d1' = d
  /\ d2' = d1
  /\ UNCHANGED <<log, msgs, call>>

DeriveUnary ==
  /\ d2 = NoDerivation
  /\ \E op \in Members(UnaryOps), input \in ReqHandles, program_id \in Namespaces :
       Derived(Derivation(1, "host", op, <<input>>, program_id,
                          derive_unary_handle(op, input, program_id)))

DeriveBinary ==
  /\ d2 = NoDerivation
  /\ \E op \in Members(BinaryOps), lhs \in ReqHandles, rhs \in ReqHandles,
     program_id \in Namespaces :
       Derived(Derivation(2, "host", op, <<lhs, rhs>>, program_id,
                          derive_binary_handle(op, lhs, rhs, program_id)))

DeriveTernary ==
  /\ d2 = NoDerivation
  /\ \E op \in Members(TernaryOps), a \in ReqHandles, b \in ReqHandles,
     c \in ReqHandles, program_id \in Namespaces :
       Derived(Derivation(3, "host", op, <<a, b, c>>, program_id,
                          derive_ternary_handle(op, a, b, c, program_id)))

LendingDeriveBinary ==
  /\ d2 = NoDerivation
  /\ \E op \in Members(LendingBinaryOps), lhs \in ReqHandles, rhs \in ReqHandles,
     program_id \in Namespaces :
       Derived(Derivation(2, "lending", op, <<lhs, rhs>>, program_id,
                          lending_derive_binary_handle(op, lhs, rhs, program_id)))

LendingDeriveTernary ==
  /\ d2 = NoDerivation
  /\ \E op \in Members(LendingTernaryOps), a \in ReqHandles, b \in ReqHandles,
     c \in ReqHandles, program_id \in Namespaces :
       Derived(Derivation(3, "lending", op, <<a, b, c>>, program_id,
                          lending_derive_ternary_handle(op, a, b, c, program_id)))

NextDerive ==
  \/ DeriveUnary
  \/ DeriveBinary
  \/ DeriveTernary
  \/ LendingDeriveBinary
  \/ LendingDeriveTernary

SpecDerive == Init /\ [][NextDerive]_vars

\* ================================================================== claims
Last(s) == s[Len(s)]

\* position of the op byte in a hash input built with domain tag `tag`
OpBytePos(tag) == Len(tag) + PubkeyLen + 1

\* the registry byte of a catalog member, counted from the catalog itself
RegistryByte(decl, op) == Cardinality({i \in 1..Len(decl) : i < VariantIndex(decl, op)})

\* C1: a request call emits a record that carries the call's op and operands in
\* argument order, and whose result_handle is the hash of: the arity's domain
\* tag, the host program id, the op's one-byte discriminant, the operands in
\* argument order -- and of nothing else (not the caller, not the log).
C1_RequestRecord ==
  /\ call.entry = "request_unary_op" =>
       Last(log) =
         [type |-> "Fhe16UnaryOpRequested", caller |-> call.caller, op |-> call.op,
          input_handle |-> call.handles[1],
          result_handle |->
            Hash(HANDLE_DOMAIN_UNARY \o HOST_CONTRACTS_ID
                 \o <<<<RegistryByte(UnaryOps, call.op)>>>> \o call.handles[1])]
  /\ call.entry = "request_binary_op" =>
       Last(log) =
         [type |-> "Fhe16BinaryOpRequested", caller |-> call.caller, op |-> call.op,
          lhs_handle |-> call.handles[1], rhs_handle |-> call.handles[2],
          result_handle |->
            Hash(HANDLE_DOMAIN_BINARY \o HOST_CONTRACTS_ID
                 \o <<<<RegistryByte(BinaryOps, call.op)>>>>
                 \o call.handles[1] \o call.handles[2])]
  /\ call.entry = "request_ternary_op" =>
       Last(log) =
         [type |-> "Fhe16TernaryOpRequested", caller |-> call.caller, op |-> call.op,
          a_handle |-> call.handles[1], b_handle |-> call.handles[2],
          c_handle |-> call.handles[3],
          result_handle |->
            Hash(HANDLE_DOMAIN_TERNARY \o HOST_CONTRACTS_ID
                 \o <<<<RegistryByte(TernaryOps, call.op)>>>>
                 \o call.handles[1] \o call.handles[2] \o call.handles[3])]

\* a binary request by the second caller, with distinct operands, on a log that
\* already holds a record
C1_Witness ==
  /\ call.entry = "request_binary_op"
  /\ call.op = "Add"
  /\ call.caller = Caller2
  /\ call.handles = <<InputA, InputB>>
  /\ Len(log) = 2

\* C7: each of the four host-programs entry points, whatever the caller and
\* the handles, succeeds, appends exactly one record of its own type to the
\* log, leaves the earlier records as they were and writes nothing else.
C7_Entries ==
  [entry \in {"register_input_handle", "request_unary_op", "request_binary_op",
              "request_ternary_op"} |->
     CASE entry = "register_input_handle" -> "InputHandleRegistered"
       [] entry = "request_unary_op" -> "Fhe16UnaryOpRequested"
       [] entry = "request_binary_op" -> "Fhe16BinaryOpRequested"
       [] entry = "request_ternary_op" -> "Fhe16TernaryOpRequested"]

C7_OneRecordAppended ==
  [][call'.entry \in DOMAIN C7_Entries =>
       /\ call'.result = "Ok"
       /\ Len(log') = Len(log) + 1
       /\ SubSeq(log', 1, Len(log)) = log
       /\ Last(log').type = C7_Entries[call'.entry]
       /\ Last(log').caller = call'.caller
       /\ msgs' = <<>>]_vars

C7_Witness ==
  /\ call.entry = "register_input_handle"
  /\ call.caller = Caller2
  /\ Len(log) = 2
  /\ log[1].caller # call.caller

\* C9: for every catalog member, the byte that derivation mixes into the hash
\* is the byte the op serializes to in the emitted record, that byte decodes
\* to the same member, and no other member of the catalog has the same byte.
C9_Catalog(r) ==
  CASE r.type = "Fhe16UnaryOpRequested" -> UnaryOps
    [] r.type = "Fhe16BinaryOpRequested" -> BinaryOps
    [] r.type = "Fhe16TernaryOpRequested" -> TernaryOps

C9_Tag(r) ==
  CASE r.type = "Fhe16UnaryOpRequested" -> HANDLE_DOMAIN_UNARY
    [] r.type = "Fhe16BinaryOpRequested" -> HANDLE_DOMAIN_BINARY
    [] r.type = "Fhe16TernaryOpRequested" -> HANDLE_DOMAIN_TERNARY

C9_DiscriminantStable ==
  \A k \in 1..Len(log) :
    IsRequest(log[k]) =>
      LET r == log[k]
          decl == C9_Catalog(r)
          wire == BorshSerializeOp(decl, r.op)
          hashed == Preimage(r.result_handle)[OpBytePos(C9_Tag(r))]
      IN  /\ hashed = <<wire[1]>>
          /\ Len(wire) = 1
          /\ BorshDeserializeOp(decl, wire) = r.op
          /\ \A other \in Members(decl) \ {r.op} :
               /\ BorshSerializeOp(decl, other) # wire
               /\ AsU8(decl, other) # hashed[1]

\* the last member of the largest catalog has been requested
C9_Witness ==
  /\ call.entry = "request_binary_op"
  /\ call.op = "AndXor"
  /\ Last(log).op = "AndXor"

\* C6: arity isolation.  The hash inputs of a unary, a binary and a ternary
\* derivation of host-programs are different byte strings, whatever the
\* namespace, the op and the operands, so the derived handles differ.
C6_ArityIsolation ==
  (/\ d1.program = "host"
   /\ d2.program = "host"
   /\ d1.arity # d2.arity) =>
    /\ Preimage(d1.out) # Preimage(d2.out)
    /\ d1.out # d2.out

\* a unary and a ternary derivation over identical operand bytes, the same
\* namespace and the same discriminant byte (Not = Add3 = 0)
C6_Witness ==
  /\ d2.program = "host" /\ d2.arity = 1 /\ d2.op = "Not"
  /\ d1.program = "host" /\ d1.arity = 3 /\ d1.op = "Add3"
  /\ d2.operands = <<InputA>>
  /\ d1.operands = <<InputA, InputA, InputA>>
  /\ d1.program_id = d2.program_id

\* C8: within one arity, two derivations of host-programs return the same
\* handle only if namespace, op and every operand position agree; so swapping
\* two different operands changes the handle, also for commutative ops.
C8_Sensitivity ==
  (/\ d1.program = "host"
   /\ d2.program = "host"
   /\ d1.arity = d2.arity
   /\ d1.out = d2.out) =>
    /\ d1.program_id = d2.program_id
    /\ d1.op = d2.op
    /\ d1.operands = d2.operands

\* Add over swapped, different operands in one namespace
C8_Witness ==
  /\ d1.program = "host" /\ d2.program = "host"
  /\ d1.arity = 2 /\ d2.arity = 2
  /\ d1.op = "Add" /\ d2.op = "Add"
  /\ d1.program_id = d2.program_id
  /\ d2.operands = <<InputA, InputB>>
  /\ d1.operands = <<InputB, InputA>>
  /\ d1.out # d2.out

\* C5: lending-demo's derive_binary_handle / derive_ternary_handle return the
\* handle host-programs derives for the same-named op, the same operands and
\* the same program id.
C5_SameAsHost ==
  d1.program = "lending" =>
    d1.out =
      IF d1.arity = 2
      THEN derive_binary_handle(d1.op, d1.operands[1], d1.operands[2],
                                d1.program_id)
      ELSE derive_ternary_handle(d1.op, d1.operands[1], d1.operands[2],
                                 d1.operands[3], d1.program_id)

\* C2: every WithdrawCompleted record carries ge = derive_binary(Ge, B, A),
\* sub = derive_binary(Sub, B, A) and final = derive_ternary(Select, ge, sub, B)
\* and every DepositCompleted record final = derive_binary(Add, S, D), with the
\* derivation functions of lending-demo and the host program id as namespace;
\* the record of a call carries the call's two operands unchanged.
C2_CompletionRecords ==
  /\ \A k \in 1..Len(log) :
       /\ log[k].type = "WithdrawCompleted" =>
            LET r == log[k]
                B == r.usdc_balance
                A == r.withdraw_amount
            IN  /\ r.ge_result_handle =
                     lending_derive_binary_handle("Ge", B, A, HOST_PROGRAM_ID)
                /\ r.sub_result_handle =
                     lending_derive_binary_handle("Sub", B, A, HOST_PROGRAM_ID)
                /\ r.final_handle =
                     lending_derive_ternary_handle("Select", r.ge_result_handle,
                                                   r.sub_result_handle, B,
                                                   HOST_PROGRAM_ID)
       /\ log[k].type = "DepositCompleted" =>
            log[k].final_handle =
              lending_derive_binary_handle("Add", log[k].sol_balance,
                                           log[k].deposit_amount, HOST_PROGRAM_ID)
  /\ (call.entry = "withdraw" /\ call.result = "Ok") =>
       /\ Last(log).type = "WithdrawCompleted"
       /\ Last(log).caller = call.caller
       /\ Last(log).usdc_balance = call.handles[1]
       /\ Last(log).withdraw_amount = call.handles[2]
  /\ (call.entry = "deposit" /\ call.result = "Ok") =>
       /\ Last(log).type = "DepositCompleted"
       /\ Last(log).caller = call.caller
       /\ Last(log).sol_balance = call.handles[1]
       /\ Last(log).deposit_amount = call.handles[2]

\* a withdraw has completed after a deposit
C2_Witness ==
  /\ Len(log) = 2
  /\ log[1].type = "DepositCompleted"
  /\ log[2].type = "WithdrawCompleted"
  /\ call.entry = "withdraw"
  /\ call.result = "Ok"
  /\ log[2].usdc_balance # log[2].withdraw_amount

\* C3: a successful withdraw(B, A) adds to the log, in this order and with
\* nothing in between, the BinaryOpRequested record of (Ge, B, A), the
\* BinaryOpRequested record of (Sub, B, A), the TernaryOpRequested record of
\* (Select, ge, sub, B) and the WithdrawCompleted record.
C3_WithdrawEmitsSteps ==
  [][(call'.entry = "withdraw" /\ call'.result = "Ok") =>
       /\ Len(log') = Len(log) + 4
       /\ SubSeq(log', 1, Len(log)) = log
       /\ LET n == Len(log)
              B == call'.handles[1]
              A == call'.handles[2]
          IN  /\ log'[n + 1].type = "Fhe16BinaryOpRequested"
              /\ log'[n + 1].op = "Ge"
              /\ Operands(log'[n + 1]) = <<B, A>>
              /\ log'[n + 2].type = "Fhe16BinaryOpRequested"
              /\ log'[n + 2].op = "Sub"
              /\ Operands(log'[n + 2]) = <<B, A>>
              /\ log'[n + 3].type = "Fhe16TernaryOpRequested"
              /\ log'[n + 3].op = "Select"
              /\ Operands(log'[n + 3]) =
                   <<log'[n + 1].result_handle, log'[n + 2].result_handle, B>>
              /\ log'[n + 4].type = "WithdrawCompleted"]_vars

Producers(l, h) == {i \in 1..Len(l) : IsRequest(l[i]) /\ l[i].result_handle = h}

OperandSet(r) == {Operands(r)[i] : i \in 1..Len(Operands(r))}

C10_ProducerFirst ==
  \A j \in 1..Len(log) :
    \A h \in OperandSet(log[j]) :
      Producers(log, h) # {} => \E i \in Producers(log, h) : i < j

\* C10 (amended): the dependency edges, read from record contents alone, form
\* an acyclic graph: no record depends, directly or through other records, on
\* its own result handle.
DependsOn(l, j, i) == IsRequest(l[i]) /\ l[i].result_handle \in OperandSet(l[j])

RECURSIVE Reaches(_, _, _, _)
Reaches(l, j, i, fuel) ==
  \/ DependsOn(l, j, i)
  \/ /\ fuel > 0
     /\ \E k \in 1..Len(l) : DependsOn(l, j, k) /\ Reaches(l, k, i, fuel - 1)

C10_Acyclic == \A j \in 1..Len(log) : ~Reaches(log, j, j, Len(log))

\* a consumer precedes its producer in the log
C10_Witness ==
  /\ Len(log) = 2
  /\ IsRequest(log[1])
  /\ DependsOn(log, 1, 2)

====
